---- MODULE Spec2Model ----
(***************************************************************************)
(* Model of vak's segment-error-rate core:                                 *)
(*   vak/nn/functional.py   levenshtein, segment_error_rate,               *)
(*                          remove_unlabeled, lbl_tb2labels                *)
(*   vak/nn/modules/loss.py SegmentErrorRateLoss, CombinedCESERLoss        *)
(*                                                                         *)
(* Tensors are sequences.  The code indexes from 0; At and Put keep the    *)
(* code's indices.  A 0-dim tensor obtained by indexing (d0[j]) is a view  *)
(* of the row's storage, so an in-place update of it is an update of the   *)
(* row: InnerBody writes it back into d0.                                  *)
(***************************************************************************)
EXTENDS Integers, Sequences, FiniteSets, TLC

\* ------------------------------------------------------------------------
\* Bounds of the model
\* ------------------------------------------------------------------------
\* longest sequence handed to levenshtein
MaxLen == 3
\* symbols of the sequences handed to levenshtein are 0..MaxSym
MaxSym == 2
\* longest frame sequence handed to lbl_tb2labels on its own
MaxFrames == 4
\* codes of those frame sequences are 0..MaxCode
MaxCode == 2
\* label codes of a batch are 0..MaxLabel (MaxLabel + 1 classes)
MaxLabel == 1
\* logits are 0..MaxLogit
MaxLogit == 1
\* a batch of one forward call has at most MaxCells = B * T frames
MaxCells == 4
\* the same, when two forward calls are compared
MaxPairCells == 2

\* ------------------------------------------------------------------------
\* Generic helpers
\* ------------------------------------------------------------------------
At(s, k) == s[k + 1]

Put(s, k, v) == [s EXCEPT ![k + 1] = v]

\* torch.arange(n): 0, 1, ..., n-1
Arange(n) == [k \in 1..n |-> k - 1]

SeqsUpTo(S, n) == UNION {[1..m -> S] : m \in 0..n}

Min2(a, b) == IF a < b THEN a ELSE b

Max2(a, b) == IF a > b THEN a ELSE b

\* ------------------------------------------------------------------------
\* Reference: the full Wagner-Fischer table of s and t, row by row.
\* Cell (a, b) is the minimum number of insertions, deletions and
\* substitutions that turn the first a elements of s into the first b
\* elements of t; WFRow(s, t, a) is row a, the cells (a, 0..Len(t)).
\* ------------------------------------------------------------------------
\* cells[1..b] are the cells (a, 0..b-1) of row a > 0; prev is row a - 1
RECURSIVE WFFill(_, _, _, _, _)
WFFill(s, t, a, prev, cells) ==
    LET b == Len(cells)
    IN  IF b > Len(t) THEN cells
        ELSE WFFill(s, t, a, prev,
                 Append(cells,
                     Min2(Min2(prev[b + 1] + 1, cells[b] + 1),
                          prev[b] + (IF s[a] = t[b] THEN 0 ELSE 1))))

RECURSIVE WFRow(_, _, _)
WFRow(s, t, a) ==
    IF a = 0 THEN [b \in 1..(Len(t) + 1) |-> b - 1]
    ELSE WFFill(s, t, a, WFRow(s, t, a - 1), <<a>>)

WFCell(s, t, a, b) == WFRow(s, t, a)[b + 1]

EditDistance(s, t) == WFCell(s, t, Len(s), Len(t))

\* ------------------------------------------------------------------------
\* levenshtein (functional.py:13-83)
\* ------------------------------------------------------------------------
\* torch.equal: same size and same elements
TorchEqual(a, b) == a = b

\* variant of InnerBody: the y_cost branch (functional.py:75-77) is missing
InnerBodyNoDeletion(r0, r1, src, tgt, ii, jj) ==
    IF At(src, ii) # At(tgt, jj)
    THEN LET r0a    == Put(r0, jj, At(r0, jj) + 1)
             cost1  == At(r0a, jj)
             x_cost == At(r1, jj) + 1
             cost2  == IF x_cost < cost1 THEN x_cost ELSE cost1
         IN  <<r0a, Put(r1, jj + 1, cost2)>>
    ELSE <<r0, Put(r1, jj + 1, At(r0, jj))>>

\* variant of InnerBody: y_cost is taken from d0[j], the cell `cost += 1`
\* has just changed, and not from d0[j + 1]
InnerBodyStaleRead(r0, r1, src, tgt, ii, jj) ==
    IF At(src, ii) # At(tgt, jj)
    THEN LET r0a    == Put(r0, jj, At(r0, jj) + 1)
             cost1  == At(r0a, jj)
             x_cost == At(r1, jj) + 1
             cost2  == IF x_cost < cost1 THEN x_cost ELSE cost1
             y_cost == At(r0a, jj) + 1
             cost3  == IF y_cost < cost2 THEN y_cost ELSE cost2
         IN  <<r0a, Put(r1, jj + 1, cost3)>>
    ELSE <<r0, Put(r1, jj + 1, At(r0, jj))>>

\* One pass of the inner loop body at outer index ii and inner index jj
\* (functional.py:66-79); the result is the pair of rows <<d0, d1>>.
\* cost = d0[j] is a view, so `cost += 1` changes d0[j] itself; the later
\* `cost = x_cost` / `cost = y_cost` rebind the name and leave d0 alone.
InnerBody(r0, r1, src, tgt, ii, jj) ==
    IF At(src, ii) # At(tgt, jj)
    THEN LET r0a    == Put(r0, jj, At(r0, jj) + 1)
             cost1  == At(r0a, jj)
             x_cost == At(r1, jj) + 1
             cost2  == IF x_cost < cost1 THEN x_cost ELSE cost1
             y_cost == At(r0a, jj + 1) + 1
             cost3  == IF y_cost < cost2 THEN y_cost ELSE cost2
         IN  <<r0a, Put(r1, jj + 1, cost3)>>
    ELSE <<r0, Put(r1, jj + 1, At(r0, jj))>>

\* variant of SwapArgs: no swap
SwapNever(s, t) == <<s, t>>

\* the swap of functional.py:54-56: <<source, target>> with the shorter first
SwapArgs(s, t) == IF Len(s) > Len(t) THEN <<t, s>> ELSE <<s, t>>

\* variant of RowWidth: one cell per element of the shorter sequence
RowWidthShort(ls, lt) == ls + 1

\* width of the rows d0 and d1 (functional.py:61-62), for the lengths after
\* the swap
RowWidth(ls, lt) == lt + 1

\* inner loop from index jj to the end of the row (functional.py:65-79)
RECURSIVE InnerLoop(_, _, _, _, _, _)
InnerLoop(r0, r1, src, tgt, ii, jj) ==
    IF jj < Len(tgt)
    THEN LET rows == InnerBody(r0, r1, src, tgt, ii, jj)
         IN  InnerLoop(rows[1], rows[2], src, tgt, ii, jj + 1)
    ELSE <<r0, r1>>

\* outer loop from index ii on (functional.py:63-83); returns d0[-1]
RECURSIVE OuterLoop(_, _, _, _, _)
OuterLoop(r0, r1, src, tgt, ii) ==
    IF ii < Len(src)
    THEN LET rows == InnerLoop(r0, Put(r1, 0, ii + 1), src, tgt, ii, 0)
         IN  OuterLoop(rows[2], rows[1], src, tgt, ii + 1)
    ELSE r0[Len(r0)]

\* variant of EmptyResult: the length of source, whichever is empty
EmptyResultSource(ls, lt) == ls

\* the early returns for an empty argument (functional.py:49-52)
EmptyResult(ls, lt) == IF ls = 0 THEN lt ELSE ls

\* the whole function, as one value
levenshtein(s, t) ==
    IF TorchEqual(s, t) THEN 0
    ELSE IF Len(s) = 0 \/ Len(t) = 0 THEN EmptyResult(Len(s), Len(t))
    ELSE LET sw == SwapArgs(s, t)
             w  == RowWidth(Len(sw[1]), Len(sw[2]))
         IN  OuterLoop(Arange(w), Arange(w), sw[1], sw[2], 0)

\* ------------------------------------------------------------------------
\* Floating-point results.  A value is <<n, d>>: a non-negative rational in
\* lowest terms when d > 0, +infinity <<1, 0>>, NaN <<0, 0>> (no negative
\* value arises: distances, lengths and weights are non-negative).
\* Rounding is not modelled.
\* ------------------------------------------------------------------------
RECURSIVE GCD(_, _)
GCD(a, b) == IF b = 0 THEN a ELSE GCD(b, a % b)

NaN == <<0, 0>>

Inf == <<1, 0>>

IsNaN(x) == x = NaN

IsFinite(x) == x[2] > 0

FNorm(n, d) ==
    IF d = 0 THEN (IF n = 0 THEN NaN ELSE Inf)
    ELSE LET g == GCD(n, d) IN <<n \div g, d \div g>>

FInt(n) == <<n, 1>>

FAdd(a, b) ==
    IF IsNaN(a) \/ IsNaN(b) THEN NaN
    ELSE IF a = Inf \/ b = Inf THEN Inf
    ELSE FNorm(a[1] * b[2] + b[1] * a[2], a[2] * b[2])

FMul(a, b) ==
    IF IsNaN(a) \/ IsNaN(b) THEN NaN
    ELSE IF a = Inf \/ b = Inf
         THEN (IF a[1] = 0 \/ b[1] = 0 THEN NaN ELSE Inf)
    ELSE FNorm(a[1] * b[1], a[2] * b[2])

\* a float divided by a positive count
FDivCount(a, n) ==
    IF IsFinite(a) THEN FNorm(a[1], a[2] * n) ELSE a

\* an integer tensor divided by a Python int: true division, and a zero
\* divisor gives inf or nan, it does not raise
TrueDivide(n, m) == FNorm(n, m)

\* ------------------------------------------------------------------------
\* remove_unlabeled, lbl_tb2labels (functional.py:116-167)
\* ------------------------------------------------------------------------
\* Python's None, as the value of `unlabeled`
None == -1

\* variant of UniqueConsecutive: torch.unique without sorting, an element
\* is kept unless it occurred anywhere before
RECURSIVE UniqueAll(_)
UniqueAll(y) ==
    IF Len(y) <= 1 THEN y
    ELSE LET front == UniqueAll(SubSeq(y, 1, Len(y) - 1))
         IN  IF \E p \in 1..(Len(y) - 1) : y[p] = y[Len(y)] THEN front
             ELSE Append(front, y[Len(y)])

\* torch.unique_consecutive (functional.py:164): an element is kept unless
\* it equals the one before it
RECURSIVE UniqueConsecutive(_)
UniqueConsecutive(y) ==
    IF Len(y) <= 1 THEN y
    ELSE LET front == UniqueConsecutive(SubSeq(y, 1, Len(y) - 1))
         IN  IF y[Len(y)] = y[Len(y) - 1] THEN front
             ELSE Append(front, y[Len(y)])

\* variant of RemoveUnlabeled: only a leading unlabeled entry is removed
RemoveUnlabeledLeading(y, u) ==
    IF Len(y) > 0 /\ y[1] = u THEN Tail(y) ELSE y

\* y[y != unlabeled] (functional.py:139-140)
RemoveUnlabeled(y, u) == SelectSeq(y, LAMBDA v : v # u)

\* the whole function, as one value (functional.py:164-167)
lbl_tb2labels(y, u) ==
    LET y_lab == UniqueConsecutive(y)
    IN  IF u # None THEN RemoveUnlabeled(y_lab, u) ELSE y_lab

\* ------------------------------------------------------------------------
\* segment_error_rate (functional.py:86-113)
\* ------------------------------------------------------------------------
\* variant of segment_error_rate: normalised by the length of source
SegmentErrorRateBySource(src, tgt) == TrueDivide(levenshtein(src, tgt), Len(src))

\* levenshtein(source, target) / torch.numel(target)
segment_error_rate(src, tgt) == TrueDivide(levenshtein(src, tgt), Len(tgt))

\* ------------------------------------------------------------------------
\* SegmentErrorRateLoss, CombinedCESERLoss (loss.py)
\* ------------------------------------------------------------------------
\* variant of ArgmaxScan: a later equal value replaces the best so far
RECURSIVE ArgmaxLastScan(_, _, _)
ArgmaxLastScan(vals, k, best) ==
    IF k > Len(vals) THEN best - 1
    ELSE ArgmaxLastScan(vals, k + 1, IF vals[k] >= vals[best] THEN k ELSE best)

\* scan for the index, from 0, of the first maximal value of vals
RECURSIVE ArgmaxScan(_, _, _)
ArgmaxScan(vals, k, best) ==
    IF k > Len(vals) THEN best - 1
    ELSE ArgmaxScan(vals, k + 1, IF vals[k] > vals[best] THEN k ELSE best)

\* variant of Argmax: the index of the last maximal value
ArgmaxLast(vals) == ArgmaxLastScan(vals, 2, 1)

\* torch.argmax of a non-empty 1-d tensor: the index of its first maximal
\* value
Argmax(vals) == ArgmaxScan(vals, 2, 1)

\* input.argmax(dim=1) for one example x of shape (C, T): one label a frame
ArgmaxDim1(x) ==
    [t \in 1..Len(x[1]) |-> Argmax([c \in 1..Len(x) |-> x[c][t]])]

\* the sum of the entries of dists, in order
RECURSIVE FSum(_)
FSum(ds) ==
    IF Len(ds) = 0 THEN FInt(0)
    ELSE FAdd(FSum(SubSeq(ds, 1, Len(ds) - 1)), ds[Len(ds)])

\* variant of Mean: the last entry is left out of the sum
MeanDropLast(ds) == FDivCount(FSum(SubSeq(ds, 1, Len(ds) - 1)), Len(ds))

\* dists.mean() (loss.py:38)
Mean(ds) == FDivCount(FSum(ds), Len(ds))

\* (lambda_ce * ce_loss) + (lambda_ser * ser_loss)
Combine(lce, ce, lser, ser) == FAdd(FMul(lce, ce), FMul(lser, ser))

\* ------------------------------------------------------------------------
\* State
\* ------------------------------------------------------------------------
VARIABLES
    \* levenshtein, one call, statement by statement
    in_source, in_target,     \* the arguments of the call
    source, target,           \* the local names, swapped at functional.py:55
    len_source, len_target,
    d0, d1,                   \* the two live rows
    alt0, alt1,               \* indices of d0 / d1 that `cost += 1` changed
                              \* through the view and no assignment has
                              \* overwritten since
    i, j,                     \* loop indices
    distance,                 \* the returned value
    pc,
    \* lbl_tb2labels, one call
    y, unlabeled,             \* the arguments of the call
    y_labels,
    cpc,
    \* CombinedCESERLoss: the loss object and its forward calls.  ncalls
    \* forward calls (1 or 2) are made on the same object with the same
    \* target; they advance together and call k owns the k-th entry of
    \* input, ce_loss, pred, seg_input, dists, ser_loss and loss.
    lambda_ce, lambda_ser, self_unlabeled,
    ncalls,
    input,                    \* logits of shape (B, C, T), one per call
    targ,                     \* the target of shape (B, T)
    ce_loss,
    pred,                     \* input after argmax and unbind
    seg_input, seg_target,    \* the two lists of collapsed sequences
    dists, ind,
    ser_loss,
    loss,
    lpc

levVars == <<in_source, in_target, source, target, len_source, len_target,
             d0, d1, alt0, alt1, i, j, distance, pc>>

colVars == <<y, unlabeled, y_labels, cpc>>

lossVars == <<lambda_ce, lambda_ser, self_unlabeled, ncalls, input, targ,
              ce_loss, pred, seg_input, seg_target, dists, ind, ser_loss,
              loss, lpc>>

vars == <<levVars, colVars, lossVars>>

LevInputs == SeqsUpTo(0..MaxSym, MaxLen)

LevIdle ==
    /\ in_source = <<>> /\ in_target = <<>>
    /\ source = <<>> /\ target = <<>>
    /\ len_source = 0 /\ len_target = 0
    /\ d0 = <<>> /\ d1 = <<>>
    /\ alt0 = {} /\ alt1 = {}
    /\ i = 0 /\ j = 0
    /\ distance = -1
    /\ pc = "idle"

ColIdle ==
    /\ y = <<>> /\ unlabeled = None /\ y_labels = <<>> /\ cpc = "idle"

LossIdle ==
    /\ lambda_ce = <<0, 1>> /\ lambda_ser = <<0, 1>> /\ self_unlabeled = None
    /\ ncalls = 0
    /\ input = <<>> /\ targ = <<>>
    /\ ce_loss = <<>> /\ pred = <<>>
    /\ seg_input = <<>> /\ seg_target = <<>>
    /\ dists = <<>> /\ ind = 0
    /\ ser_loss = <<>> /\ loss = <<>>
    /\ lpc = "idle"

LevInit ==
    /\ ColIdle /\ LossIdle
    /\ in_source \in LevInputs
    /\ in_target \in LevInputs
    /\ source = in_source /\ target = in_target
    /\ len_source = 0 /\ len_target = 0
    /\ d0 = <<>> /\ d1 = <<>>
    /\ alt0 = {} /\ alt1 = {}
    /\ i = 0 /\ j = 0
    /\ distance = -1
    /\ pc = "call"

\* functional.py:43-44
EarlyEqual ==
    /\ pc = "call"
    /\ TorchEqual(source, target)
    /\ distance' = 0
    /\ pc' = "done"
    /\ UNCHANGED <<in_source, in_target, source, target, len_source,
                   len_target, d0, d1, alt0, alt1, i, j>>

\* functional.py:46-52
EarlyEmpty ==
    /\ pc = "call"
    /\ ~TorchEqual(source, target)
    /\ Len(source) = 0 \/ Len(target) = 0
    /\ len_source' = Len(source)
    /\ len_target' = Len(target)
    /\ distance' = EmptyResult(Len(source), Len(target))
    /\ pc' = "done"
    /\ UNCHANGED <<in_source, in_target, source, target, d0, d1, alt0, alt1,
                   i, j>>

\* functional.py:46-62: lengths, swap, allocation of the two rows
Setup ==
    /\ pc = "call"
    /\ ~TorchEqual(source, target)
    /\ Len(source) # 0 /\ Len(target) # 0
    /\ LET sw == SwapArgs(source, target)
           w  == RowWidth(Len(sw[1]), Len(sw[2]))
       IN  /\ source' = sw[1]
           /\ target' = sw[2]
           /\ len_source' = Len(sw[1])
           /\ len_target' = Len(sw[2])
           /\ d0' = Arange(w)
           /\ d1' = Arange(w)
    /\ alt0' = {} /\ alt1' = {}
    /\ i' = 0
    /\ pc' = "outer"
    /\ UNCHANGED <<in_source, in_target, j, distance>>

\* functional.py:63-64: enter row i
OuterEnter ==
    /\ pc = "outer"
    /\ i < len_source
    /\ d1' = Put(d1, 0, i + 1)
    /\ alt1' = alt1 \ {0}
    /\ j' = 0
    /\ pc' = "inner"
    /\ UNCHANGED <<in_source, in_target, source, target, len_source,
                   len_target, d0, alt0, i, distance>>

\* functional.py:65-79: one pass of the inner loop
InnerStep ==
    /\ pc = "inner"
    /\ j < len_target
    /\ LET rows == InnerBody(d0, d1, source, target, i, j)
       IN  /\ d0' = rows[1]
           /\ d1' = rows[2]
    /\ alt0' = IF At(source, i) # At(target, j) THEN alt0 \cup {j} ELSE alt0
    /\ alt1' = alt1 \ {j + 1}
    /\ j' = j + 1
    /\ UNCHANGED <<in_source, in_target, source, target, len_source,
                   len_target, i, distance, pc>>

\* functional.py:81: the row is complete, d0, d1 = d1, d0
RowSwap ==
    /\ pc = "inner"
    /\ j = len_target
    /\ d0' = d1
    /\ d1' = d0
    /\ alt0' = alt1
    /\ alt1' = alt0
    /\ i' = i + 1
    /\ pc' = "outer"
    /\ UNCHANGED <<in_source, in_target, source, target, len_source,
                   len_target, j, distance>>

\* functional.py:83
Return ==
    /\ pc = "outer"
    /\ i = len_source
    /\ distance' = d0[Len(d0)]
    /\ pc' = "done"
    /\ UNCHANGED <<in_source, in_target, source, target, len_source,
                   len_target, d0, d1, alt0, alt1, i, j>>

LevStep ==
    \/ EarlyEqual
    \/ EarlyEmpty
    \/ Setup
    \/ OuterEnter
    \/ InnerStep
    \/ RowSwap
    \/ Return

LevNext == LevStep /\ UNCHANGED <<colVars, lossVars>>

SpecLev == LevInit /\ [][LevNext]_vars

\* ------------------------------------------------------------------------
\* lbl_tb2labels, statement by statement (functional.py:164-167)
\* ------------------------------------------------------------------------
Codes == 0..MaxCode

ColInit ==
    /\ LevIdle /\ LossIdle
    /\ y \in SeqsUpTo(Codes, MaxFrames)
    /\ unlabeled \in Codes \cup {None}
    /\ y_labels = <<>>
    /\ cpc = "call"

\* functional.py:164
Unique ==
    /\ cpc = "call"
    /\ y_labels' = UniqueConsecutive(y)
    /\ cpc' = "unique"
    /\ UNCHANGED <<y, unlabeled>>

\* functional.py:165-167, unlabeled is not None
Remove ==
    /\ cpc = "unique"
    /\ unlabeled # None
    /\ y_labels' = RemoveUnlabeled(y_labels, unlabeled)
    /\ cpc' = "done"
    /\ UNCHANGED <<y, unlabeled>>

\* functional.py:165-167, unlabeled is None
KeepAll ==
    /\ cpc = "unique"
    /\ unlabeled = None
    /\ cpc' = "done"
    /\ UNCHANGED <<y, unlabeled, y_labels>>

ColStep == Unique \/ Remove \/ KeepAll

ColNext == ColStep /\ UNCHANGED <<levVars, lossVars>>

SpecCollapse == ColInit /\ [][ColNext]_vars

\* ------------------------------------------------------------------------
\* CombinedCESERLoss.forward, statement by statement (loss.py:54-57), with
\* SegmentErrorRateLoss.forward (loss.py:20-38) inlined at its call
\* ------------------------------------------------------------------------
Labels == 0..MaxLabel

NumClasses == MaxLabel + 1

Logits == 0..MaxLogit

\* batch shapes <<B, T>> with at most n frames in all
Shapes(n) == {sh \in (1..n) \X (1..n) : sh[1] * sh[2] <= n}

\* the (lambda_ce, lambda_ser) the loss object is constructed with
Weights == {<<<<1, 1>>, <<0, 1>>>>, <<<<1, 2>>, <<1, 2>>>>}

\* values of torch.nn.CrossEntropyLoss, which is not part of this code: a
\* finite positive number, whatever the batch
CEValues == {<<1, 2>>, <<3, 1>>}

Calls == 1..ncalls

LossInitWith(n, cells) ==
    /\ LevIdle /\ ColIdle
    /\ ncalls = n
    /\ \E w \in Weights : lambda_ce = w[1] /\ lambda_ser = w[2]
    /\ self_unlabeled \in Labels \cup {None}
    /\ \E sh \in Shapes(cells) :
          /\ input \in [1..n -> [1..sh[1] ->
                           [1..NumClasses -> [1..sh[2] -> Logits]]]]
          /\ targ \in [1..sh[1] -> [1..sh[2] -> Labels]]
    /\ ce_loss = <<>> /\ pred = <<>>
    /\ seg_input = <<>> /\ seg_target = <<>>
    /\ dists = <<>> /\ ind = 0
    /\ ser_loss = <<>> /\ loss = <<>>
    /\ lpc = "call"

\* loss.py:55: the cross-entropy term of each call
CrossEntropy ==
    /\ lpc = "call"
    /\ ce_loss' \in [Calls -> CEValues]
    /\ lpc' = "ser"
    /\ UNCHANGED <<lambda_ce, lambda_ser, self_unlabeled, ncalls, input, targ,
                   pred, seg_input, seg_target, dists, ind, ser_loss, loss>>

\* loss.py:21-25: dists = zeros(B), argmax over the class dimension, unbind
ArgmaxUnbind ==
    /\ lpc = "ser"
    /\ dists' = [k \in Calls |-> [b \in 1..Len(targ) |-> FInt(0)]]
    /\ pred' = [k \in Calls |->
                  [b \in 1..Len(input[k]) |-> ArgmaxDim1(input[k][b])]]
    /\ lpc' = "collapse_input"
    /\ UNCHANGED <<lambda_ce, lambda_ser, self_unlabeled, ncalls, input, targ,
                   ce_loss, seg_input, seg_target, ind, ser_loss, loss>>

\* loss.py:26-29
CollapseInput ==
    /\ lpc = "collapse_input"
    /\ seg_input' = [k \in Calls |->
                       [b \in 1..Len(pred[k]) |->
                           lbl_tb2labels(pred[k][b], self_unlabeled)]]
    /\ lpc' = "collapse_target"
    /\ UNCHANGED <<lambda_ce, lambda_ser, self_unlabeled, ncalls, input, targ,
                   ce_loss, pred, seg_target, dists, ind, ser_loss, loss>>

\* loss.py:30-33
CollapseTarget ==
    /\ lpc = "collapse_target"
    /\ seg_target' = [b \in 1..Len(targ) |->
                        lbl_tb2labels(targ[b], self_unlabeled)]
    /\ ind' = 0
    /\ lpc' = "loop"
    /\ UNCHANGED <<lambda_ce, lambda_ser, self_unlabeled, ncalls, input, targ,
                   ce_loss, pred, seg_input, dists, ser_loss, loss>>

\* loss.py:35-36: dists[ind] = segment_error_rate(src, tgt)
RateOfExample ==
    /\ lpc = "loop"
    /\ ind < Len(seg_target)
    /\ dists' = [k \in Calls |->
                   Put(dists[k], ind,
                       segment_error_rate(At(seg_input[k], ind),
                                          At(seg_target, ind)))]
    /\ ind' = ind + 1
    /\ UNCHANGED <<lambda_ce, lambda_ser, self_unlabeled, ncalls, input, targ,
                   ce_loss, pred, seg_input, seg_target, ser_loss, loss, lpc>>

\* loss.py:38, and the assignment of loss.py:56
MeanOfBatch ==
    /\ lpc = "loop"
    /\ ind = Len(seg_target)
    /\ ser_loss' = [k \in Calls |-> Mean(dists[k])]
    /\ lpc' = "combine"
    /\ UNCHANGED <<lambda_ce, lambda_ser, self_unlabeled, ncalls, input, targ,
                   ce_loss, pred, seg_input, seg_target, dists, ind, loss>>

\* loss.py:57
CombineTerms ==
    /\ lpc = "combine"
    /\ loss' = [k \in Calls |->
                  Combine(lambda_ce, ce_loss[k], lambda_ser, ser_loss[k])]
    /\ lpc' = "done"
    /\ UNCHANGED <<lambda_ce, lambda_ser, self_unlabeled, ncalls, input, targ,
                   ce_loss, pred, seg_input, seg_target, dists, ind, ser_loss>>

LossStep ==
    \/ CrossEntropy
    \/ ArgmaxUnbind
    \/ CollapseInput
    \/ CollapseTarget
    \/ RateOfExample
    \/ MeanOfBatch
    \/ CombineTerms

LossNext == LossStep /\ UNCHANGED <<levVars, colVars>>

\* one forward call
LossInit == LossInitWith(1, MaxCells)

SpecLoss == LossInit /\ [][LossNext]_vars

\* two forward calls on the same loss object and target
PairInit == LossInitWith(2, MaxPairCells)

SpecPair == PairInit /\ [][LossNext]_vars

\* ------------------------------------------------------------------------
\* Properties of levenshtein (SpecLev)
\* ------------------------------------------------------------------------

\* C1: for every pair of sequences, empty ones and ones of different lengths
\* included, the value levenshtein returns is the minimum number of
\* insertions, deletions and substitutions turning source into target: the
\* last cell of the full (|source|+1) x (|target|+1) Wagner-Fischer table.
C1_LevenshteinIsEditDistance ==
    pc = "done" => distance = EditDistance(in_source, in_target)

\* the dynamic program ran on inputs of different lengths and returned
C1_Witness ==
    /\ pc = "done"
    /\ i = len_source /\ len_source > 0
    /\ Len(in_source) > Len(in_target)
    /\ distance = 2

\* C7: levenshtein(a, b) = levenshtein(b, a), for equal and for different
\* lengths: the returned value of the call on (source, target) is the value
\* of the call with the arguments exchanged.
C7_Symmetric ==
    pc = "done" => distance = levenshtein(in_target, in_source)

\* a call whose arguments were swapped at functional.py:55 has returned
C7_Witness ==
    /\ pc = "done"
    /\ Len(in_source) > Len(in_target) /\ Len(in_target) > 0
    /\ source = in_target /\ target = in_source
    /\ distance > 0

InDP == pc \in {"outer", "inner"}

\* C8 as stated: during the dynamic program source is never longer than
\* target, and each of the two rows d0 and d1 is at most
\* min(|source|, |target|) + 1 wide, for the lengths of the arguments.
C8_RowWidthAtMostMin ==
    InDP => /\ len_source <= len_target
            /\ Len(d0) <= Min2(Len(in_source), Len(in_target)) + 1
            /\ Len(d1) <= Min2(Len(in_source), Len(in_target)) + 1

\* C8 amended: during the dynamic program source is never longer than
\* target, d0 and d1 are the only rows, and each is exactly
\* max(|source|, |target|) + 1 wide (one cell per element of the longer
\* argument, plus one).
C8_RowWidthIsMax ==
    InDP => /\ len_source <= len_target
            /\ len_source = Min2(Len(in_source), Len(in_target))
            /\ len_target = Max2(Len(in_source), Len(in_target))
            /\ Len(d0) = Max2(Len(in_source), Len(in_target)) + 1
            /\ Len(d1) = Max2(Len(in_source), Len(in_target)) + 1

\* the swap happened and the rows are wider than min + 1
C8_Witness ==
    /\ pc = "inner"
    /\ Len(in_source) > Len(in_target)
    /\ source = in_target
    /\ Len(d0) > Min2(Len(in_source), Len(in_target)) + 1

\* C9: at outer index i and inner index j every value the loop body reads
\* is the Wagner-Fischer cell of the (swapped) source and target:
\* d0[j] = cell(i, j), d0[j+1] = cell(i, j+1), d1[j] = cell(i+1, j); and
\* every cell of row i+1 written so far, d1[0..j], is cell(i+1, .).  The
\* cells `cost += 1` changed through the view are not among the cells read:
\* each is overwritten before it is read again.
C9_ReadsAreTableCells ==
    pc = "inner" =>
        LET row_i  == WFRow(source, target, i)
            row_i1 == WFRow(source, target, i + 1)
        IN  /\ \A k \in 0..j : At(d1, k) = At(row_i1, k)
            /\ j < len_target =>
                  /\ At(d0, j) = At(row_i, j)
                  /\ At(d0, j + 1) = At(row_i, j + 1)
                  /\ At(d1, j) = At(row_i1, j)
                  /\ j \notin alt0 /\ (j + 1) \notin alt0 /\ j \notin alt1

\* a cell of d0 has been changed by `cost += 1` (it no longer holds its
\* table value) and the loop body is about to read again
C9_Witness ==
    /\ pc = "inner"
    /\ j < len_target
    /\ i > 0
    /\ alt1 # {}
    /\ \E k \in alt0 : k < j /\ At(d0, k) = WFCell(source, target, i, k) + 1

\* ------------------------------------------------------------------------
\* Properties of lbl_tb2labels (SpecCollapse)
\* ------------------------------------------------------------------------
\* the elements of s at the positions Keep accepts, in order
SubSeqWhere(s, Keep(_)) ==
    LET idx == SelectSeq([p \in 1..Len(s) |-> p], Keep)
    IN  [k \in 1..Len(idx) |-> s[idx[k]]]

\* deduplication of consecutive equal values, by position
RefDedup(s) == SubSeqWhere(s, LAMBDA p : p = 1 \/ s[p] # s[p - 1])

\* removal of the background code, by position
RefFilter(s, u) == SubSeqWhere(s, LAMBDA p : s[p] # u)

\* the first frame of every maximal run of one non-background code
RefSegments(s, u) ==
    SubSeqWhere(s, LAMBDA p : s[p] # u /\ (p = 1 \/ s[p] # s[p - 1]))

NoAdjacentEqual(s) == \A p \in 1..(Len(s) - 1) : s[p] # s[p + 1]

NoEntryEquals(s, u) == \A p \in 1..Len(s) : s[p] # u

Collapsed == cpc = "done" /\ unlabeled # None

\* C5 as stated: for every frame sequence and background code the result of
\* lbl_tb2labels has no two adjacent equal entries and no entry equal to
\* background.
C5_NoAdjacentEqualNoBackground ==
    Collapsed => NoAdjacentEqual(y_labels) /\ NoEntryEquals(y_labels, unlabeled)

\* C5 amended: the result has no entry equal to background and holds one
\* entry for every maximal run of one non-background code of y, in order;
\* so two adjacent entries are equal only where background frames separate
\* their runs, and never when y holds no background frame.
C5_SegmentsOfRuns ==
    Collapsed =>
        /\ NoEntryEquals(y_labels, unlabeled)
        /\ y_labels = RefSegments(y, unlabeled)
        /\ NoEntryEquals(y, unlabeled) => NoAdjacentEqual(y_labels)

\* two runs of one label separated by background: both stay in the result
C5_Witness ==
    /\ Collapsed
    /\ Len(y_labels) >= 2
    /\ ~NoAdjacentEqual(y_labels)
    /\ ~NoEntryEquals(y, unlabeled)

\* C6 as stated: deduplicating and then removing background (lbl_tb2labels)
\* gives the same sequence as removing background and then deduplicating.
C6_OrderIrrelevant ==
    Collapsed => y_labels = RefDedup(RefFilter(y, unlabeled))

\* C6 amended: removing background and then deduplicating gives the result
\* of lbl_tb2labels with its adjacent duplicates merged; the two orders give
\* the same sequence exactly when the result of lbl_tb2labels has no two
\* adjacent equal entries.
C6_OrdersAgreeUpToMerging ==
    Collapsed =>
        /\ RefDedup(y_labels) = RefDedup(RefFilter(y, unlabeled))
        /\ NoAdjacentEqual(y_labels)
              <=> y_labels = RefDedup(RefFilter(y, unlabeled))

\* the two orders give different sequences
C6_Witness ==
    /\ Collapsed
    /\ y_labels # RefDedup(RefFilter(y, unlabeled))
    /\ Len(RefDedup(RefFilter(y, unlabeled))) >= 2

\* ------------------------------------------------------------------------
\* Properties of the losses (SpecLoss, SpecPair)
\* ------------------------------------------------------------------------
\* the arg-max label of a column of logits: the least index of a maximum
RefArgmax(vals) ==
    (CHOOSE c \in 1..Len(vals) :
        /\ \A e \in 1..Len(vals) : vals[e] <= vals[c]
        /\ \A e \in 1..(c - 1) : vals[e] < vals[c]) - 1

RefLabels(x) ==
    [t \in 1..Len(x[1]) |-> RefArgmax([c \in 1..Len(x) |-> x[c][t]])]

\* example b of the target is all background
AllBackground(b) ==
    /\ self_unlabeled # None
    /\ \A t \in 1..Len(targ[b]) : targ[b][t] = self_unlabeled

\* numerator and denominator of the rate of example b of call k
RateNum(k, b) ==
    levenshtein(lbl_tb2labels(RefLabels(input[k][b]), self_unlabeled),
                lbl_tb2labels(targ[b], self_unlabeled))

RateDen(b) == Len(lbl_tb2labels(targ[b], self_unlabeled))

RECURSIVE DenProduct(_)
DenProduct(b) == IF b = 0 THEN 1 ELSE DenProduct(b - 1) * RateDen(b)

\* the sum over the examples 1..b of call k of their rates, times the
\* product dp of all denominators
RECURSIVE NumSum(_, _, _)
NumSum(k, b, dp) ==
    IF b = 0 THEN 0
    ELSE NumSum(k, b - 1, dp) + RateNum(k, b) * (dp \div RateDen(b))

\* the arithmetic mean of the rates of the examples of call k
RefMeanRate(k) ==
    LET B  == Len(targ)
        dp == DenProduct(B)
    IN  FNorm(NumSum(k, B, dp), B * dp)

SerReturned == lpc \in {"combine", "done"}

\* C2: when every target of the batch has a non-background frame, what
\* SegmentErrorRateLoss.forward returns is the arithmetic mean over the
\* examples b of levenshtein(collapse(argmax(input[b])), collapse(target[b]))
\* / len(collapse(target[b])), each example on its own.
C2_MeanOfRates ==
    (SerReturned /\ \A b \in 1..Len(targ) : ~AllBackground(b))
        => \A k \in Calls : ser_loss[k] = RefMeanRate(k)

\* a batch of two examples with different rates, neither all background
C2_Witness ==
    /\ lpc = "done"
    /\ Len(targ) = 2
    /\ \A b \in 1..Len(targ) : ~AllBackground(b)
    /\ dists[1][1] # dists[1][2]
    /\ dists[1][2] # FInt(0) /\ dists[1][1] # FInt(0)
    /\ IsFinite(ser_loss[1])

\* C3: when an example's target is all background, that example adds the
\* guarded value 0 to the batch mean and the loss returned is a finite
\* number, whatever was predicted for it.
C3_DegenerateTargetGuarded ==
    lpc = "done" =>
        \A b \in 1..Len(targ) :
            AllBackground(b) =>
                \A k \in Calls : /\ dists[k][b] = FInt(0)
                                  /\ IsFinite(ser_loss[k])
                                  /\ IsFinite(loss[k])

\* C4: with lambda_ce = 1 and lambda_ser = 0 the loss returned is the
\* cross-entropy term, for every batch, all-background targets included.
C4_ZeroWeightIsCrossEntropy ==
    (lpc = "done" /\ lambda_ce = FInt(1) /\ lambda_ser = FInt(0))
        => \A k \in Calls : loss[k] = ce_loss[k]

\* the two calls' logits have the same arg-max label at every example and
\* frame
SameArgmax ==
    \A b \in 1..Len(targ) : RefLabels(input[1][b]) = RefLabels(input[2][b])

\* C10: two forward calls whose logits have the same arg-max labels, on the
\* same target and unlabeled code, get the same segment-error term, so their
\* losses differ by lambda_ce times the difference of their cross-entropy
\* terms: loss1 + lambda_ce * ce2 = loss2 + lambda_ce * ce1.
C10_DependsOnArgmaxOnly ==
    (lpc = "done" /\ ncalls = 2 /\ SameArgmax) =>
        /\ ser_loss[1] = ser_loss[2]
        /\ FAdd(loss[1], FMul(lambda_ce, ce_loss[2]))
             = FAdd(loss[2], FMul(lambda_ce, ce_loss[1]))

\* different logits with the same arg-max labels, different cross-entropy
\* terms, and a segment-error term that counts in the loss
C10_Witness ==
    /\ lpc = "done" /\ ncalls = 2
    /\ SameArgmax
    /\ \E b \in 1..Len(targ) : input[1][b] # input[2][b]
    /\ ce_loss[1] # ce_loss[2]
    /\ lambda_ser # FInt(0)
    /\ IsFinite(ser_loss[1]) /\ ser_loss[1] # FInt(0)
    /\ loss[1] # loss[2]

====
